---- MODULE Spec2Model ----
(***************************************************************************)
(* RPItalk: the DECtalk and LiteTalk protocol decoders and the serial      *)
(* transport loop that feeds them.  Bytes are integers 0..255, byte        *)
(* strings and decoded text are sequences of bytes.                        *)
(***************************************************************************)
EXTENDS Integers, Sequences, FiniteSets, TLC

VARIABLES family, dec, lite, calls, raised, backendOK, data, input, output,
          peak, nparse, pc, serialPort, openHandles, devicePresent, polls,
          lastRead, conv

vars == <<family, dec, lite, calls, raised, backendOK, data, input, output,
          peak, nparse, pc, serialPort, openHandles, devicePresent, polls,
          lastRead, conv>>

(***************************************************************************)
(* Protocol constants.                                                     *)
(***************************************************************************)
MaxBufferSize == 4096
ReadSize == 1024

BreakChar == 3
IndexChar == 11
CommandStart == 91
CommandEnd == 93

ReturnChar == 13
CommandCode == 1
CancelCommand == 24
InterrogationCommand == 63
IndexCommand == 69
IdCommand == 73
PitchCommand == 112
PunctCommand == 98
RateCommand == 115
VolumeCommand == 118

\* "RPItalk 0.9\r"
DeviceIdString == <<82, 80, 73, 116, 97, 108, 107, 32, 48, 46, 57, 13>>

(***************************************************************************)
(* Python values: None, and the str / bytes primitives the decoders use.   *)
(***************************************************************************)
NoneVal == [kind |-> "None", val |-> 0]
IntVal(n) == [kind |-> "int", val |-> n]
StrVal(c) == [kind |-> "str", val |-> c]

NoneTok == [none |-> TRUE, s |-> <<>>]
Tok(s) == [none |-> FALSE, s |-> s]

IsSpace(b) == b = 32
\* IsDigit taking ":" for a digit
MutIsDigit(b) == b >= 48 /\ b <= 58
IsDigit(b) == b >= 48 /\ b <= 57
IsSign(b) == b = 43 \/ b = 45
IsPrintable(b) == b >= 32 /\ b <= 126

\* s[:n]
Take(s, n) == SubSeq(s, 1, IF n < Len(s) THEN n ELSE Len(s))

\* IsBlank taking only the empty text for blank
MutIsBlank(s) == s = <<>>

\* text.strip() is falsy: every character is whitespace
IsBlank(s) == \A i \in 1..Len(s) : IsSpace(s[i])

\* str.strip(): from the first to the last character that is not whitespace
Strip(s) ==
    IF IsBlank(s) THEN <<>>
    ELSE LET lo == CHOOSE i \in 1..Len(s) :
                       ~IsSpace(s[i]) /\ \A j \in 1..(i - 1) : IsSpace(s[j])
             hi == CHOOSE i \in 1..Len(s) :
                       ~IsSpace(s[i]) /\ \A j \in (i + 1)..Len(s) : IsSpace(s[j])
         IN SubSeq(s, lo, hi)

\* str.split(sep): the pieces between separators, empty pieces included
RECURSIVE SplitOn(_, _, _)
SplitOn(s, sep, cur) ==
    IF s = <<>> THEN <<cur>>
    ELSE IF Head(s) = sep THEN <<cur>> \o SplitOn(Tail(s), sep, <<>>)
    ELSE SplitOn(Tail(s), sep, Append(cur, Head(s)))

\* str.split(): the maximal runs of non-whitespace
RECURSIVE SplitWS(_, _)
SplitWS(s, cur) ==
    IF s = <<>> THEN (IF cur = <<>> THEN <<>> ELSE <<cur>>)
    ELSE IF IsSpace(Head(s))
         THEN (IF cur = <<>> THEN <<>> ELSE <<cur>>) \o SplitWS(Tail(s), <<>>)
    ELSE SplitWS(Tail(s), Append(cur, Head(s)))

\* str.lower() on ASCII
Lower(s) == [i \in 1..Len(s) |-> IF s[i] >= 65 /\ s[i] <= 90 THEN s[i] + 32 ELSE s[i]]

\* int(x) for a str / bytes / bytearray holding a base-10 literal:
\* [sign] digit (["_"] digit)*, surrounding whitespace allowed.
IntBody(s) == IF s # <<>> /\ IsSign(Head(s)) THEN Tail(s) ELSE s

IntLiteralOK(s) ==
    LET b == IntBody(Strip(s)) IN
    /\ b # <<>>
    /\ IsDigit(b[1]) /\ IsDigit(b[Len(b)])
    /\ \A i \in 1..Len(b) : IsDigit(b[i]) \/ b[i] = 95
    /\ \A i \in 1..(Len(b) - 1) : ~(b[i] = 95 /\ b[i + 1] = 95)

RECURSIVE DigitsValue(_, _)
DigitsValue(b, acc) ==
    IF b = <<>> THEN acc
    ELSE IF Head(b) = 95 THEN DigitsValue(Tail(b), acc)
    ELSE DigitsValue(Tail(b), acc * 10 + (Head(b) - 48))

IntLiteralValue(s) ==
    LET t == Strip(s)
        v == DigitsValue(IntBody(t), 0)
    IN IF t # <<>> /\ Head(t) = 45 THEN 0 - v ELSE v

(***************************************************************************)
(* Back-end (Speech Dispatcher client) calls.  Every call the decoders     *)
(* make is appended to the log; ok tells whether the service accepted it.  *)
(***************************************************************************)
Call(op, text, val, name, ok) ==
    [op |-> op, text |-> text, val |-> val, name |-> name, ok |-> ok]

SpeakCall(text) == Call("speak", text, 0, "", TRUE)
CancelCall == Call("cancel", <<>>, 0, "", TRUE)
SetCall(op, val, ok) == Call(op, <<>>, val, "", ok)
NameCall(op, name, ok) == Call(op, <<>>, 0, name, ok)

\* A decoder run: the session object, the back-end log, the exception that
\* is propagating (if any), the availability of the back-end, the response
\* collected so far and the largest size the scratch buffer has had.
Machine(self, cs, up) ==
    [self |-> self, calls |-> cs, raised |-> "none", up |-> up,
     response |-> <<>>, peak |-> 0]

Raise(m, exc) == [m EXCEPT !.raised = exc]

\* int() of a quotient that Python computes in floating point
TruncDiv(n, d) == IF n >= 0 THEN n \div d ELSE 0 - ((0 - n) \div d)

Max(a, b) == IF a >= b THEN a ELSE b
Min(a, b) == IF a <= b THEN a ELSE b

\* 2^k
RECURSIVE Pow2(_)
Pow2(k) == IF k <= 0 THEN 1 ELSE 2 * Pow2(k - 1)

\* floor(log2(n / d)) for n, d > 0: the binary exponent of the quotient
RECURSIVE FloorLog2(_, _)
FloorLog2(n, d) ==
    IF n >= 2 * d THEN FloorLog2(n, 2 * d) + 1
    ELSE IF n < d THEN FloorLog2(2 * n, d) - 1
    ELSE 0

\* Python divides in IEEE-754 binary64.  With the default target the
\* divisor is w / 200 = (w / 25) / 8 for w = r1x - r1m, rounded to 53 bits:
\* it is rounded up by d / 25 units in the last place when the remainder r
\* of w * 2^(52 - e25) by 25 is above one half of 25 (d = 25 - r).  A
\* quotient whose exact value is the whole number K > 0 then lies below K
\* by K * d * 2^(e25 - 52) / w, and the division returns the double below K
\* when that is more than half the distance between K and that double.
QuotientFallsShort(K, w) ==
    LET e25 == FloorLog2(w, 25)
        r == ((w % 25) * (Pow2((52 - e25) % 20) % 25)) % 25
        d == 25 - r
        eK == FloorLog2(K, 1)
        sh == (IF K = Pow2(eK) THEN 2 ELSE 1) - eK + e25
    IN /\ 2 * r > 25
       /\ IF sh >= 0 THEN d * K * Pow2(sh) > w ELSE d * K > w * Pow2(0 - sh)

\* int((oldValue - (r1x - r1m)/2 - r1m) / ((r1x - r1m)/(r2x - r2m))
\*     + (r2x + r2m)/2), clamped.  The numerator is exact in binary64 and a
\* quotient that is no whole number truncates as the exact one does.  The
\* program calls this with the default target only; for another target the
\* exact quotient is taken.
convertWithinRange(oldValue, r1m, r1x, r2m, r2x) ==
    LET w == r1x - r1m
        num == (2 * oldValue - w - 2 * r1m) * (r2x - r2m) + (r2x + r2m) * w
        exact == TruncDiv(num, 2 * w)
        K == IF exact >= 0 THEN exact ELSE 0 - exact
        short == /\ r2m = -100 /\ r2x = 100
                 /\ num % (2 * w) = 0
                 /\ K >= 1 /\ K <= 100
                 /\ QuotientFallsShort(K, w)
        newValue == IF ~short THEN exact
                    ELSE IF exact > 0 THEN exact - 1 ELSE exact + 1
    IN Max(r2m, Min(r2x, newValue))

MutSpeak(m, text) ==
    IF IsBlank(text) THEN m
    ELSE [m EXCEPT !.calls = Append(@, SpeakCall(Strip(text)))]

\* speak(): the back-end is called only for text that is not blank
speak(m, text) ==
    IF IsBlank(text) THEN m
    ELSE IF m.up THEN [m EXCEPT !.calls = Append(@, SpeakCall(text))]
    ELSE Raise([m EXCEPT !.calls = Append(@, Call("speak", text, 0, "", FALSE))],
               "SSIPCommunicationError")

\* cancel that does not reach the back-end
MutCancel(m) == m

cancel(m) ==
    IF m.up THEN [m EXCEPT !.calls = Append(@, CancelCall)]
    ELSE Raise([m EXCEPT !.calls = Append(@, Call("cancel", <<>>, 0, "", FALSE))],
               "SSIPCommunicationError")

MutTrySet(m, op, setValue, field, newValue) ==
    [m EXCEPT !.calls = Append(@, SetCall(op, setValue, m.up)),
              !.self[field] = newValue]

\* try: speechClient.set_x(setValue); self.field = newValue / except: log
TrySet(m, op, setValue, field, newValue) ==
    IF m.up
    THEN [m EXCEPT !.calls = Append(@, SetCall(op, setValue, TRUE)),
                   !.self[field] = newValue]
    ELSE [m EXCEPT !.calls = Append(@, SetCall(op, setValue, FALSE))]

(***************************************************************************)
(* DECtalk decoder (dectalkemulator.py).                                   *)
(***************************************************************************)
DECtalkInit(rate, pitch, volume) ==
    [rate |-> rate, pitch |-> pitch, volume |-> volume, g5 |-> NoneVal,
     punctuation |-> NoneVal, range |-> NoneVal,
     commandMode |-> "None", characterBuffer |-> <<>>]

\* strValue[0] == 0x2B where strValue is a str: a one-character str is
\* never equal to an int.
StrItemEqualsInt(ch, n) == FALSE

DecIsRelative(tok) ==
    /\ ~tok.none
    /\ tok.s # <<>>
    /\ (StrItemEqualsInt(tok.s[1], 43) \/ StrItemEqualsInt(tok.s[1], 45))

\* The newValue of a numeric setter, or the exception int() throws.
DecNewValue(tok, current) ==
    IF tok.none THEN [exc |-> "TypeError: int() argument", val |-> 0]
    ELSE IF ~IntLiteralOK(tok.s)
         THEN [exc |-> "ValueError: invalid literal for int()", val |-> 0]
    ELSE IF DecIsRelative(tok)
         THEN [exc |-> "none", val |-> current + IntLiteralValue(tok.s)]
    ELSE [exc |-> "none", val |-> IntLiteralValue(tok.s)]

DecSetSpeechPitch(m, tok) ==
    LET nv == DecNewValue(tok, m.self.pitch) IN
    IF nv.exc # "none" THEN Raise(m, nv.exc)
    ELSE TrySet(m, "set_pitch", convertWithinRange(nv.val + 40, 50, 200, -100, 100),
                "pitch", nv.val)

DecSetSpeechRange(m, tok) ==
    LET nv == DecNewValue(tok, m.self.pitch) IN
    IF nv.exc # "none" THEN Raise(m, nv.exc)
    ELSE TrySet(m, "set_pitch_range", Max(0, Min(100, nv.val)),
                "range", IntVal(nv.val))

DecSetSpeechRate(m, tok) ==
    LET nv == DecNewValue(tok, m.self.rate) IN
    IF nv.exc # "none" THEN Raise(m, nv.exc)
    ELSE TrySet(m, "set_rate", convertWithinRange(nv.val, 75, 650, -100, 100),
                "rate", nv.val)

DecSetSpeechVolume(m, tok) ==
    LET nv == DecNewValue(tok, m.self.volume) IN
    IF nv.exc # "none" THEN Raise(m, nv.exc)
    ELSE TrySet(m, "set_volume", convertWithinRange(nv.val, 0, 100, -100, 100),
                "volume", nv.val)

\* self.g5 is only read on the relative path; the result is stored in
\* self.volume.
DecSetSpeechG5(m, tok) ==
    LET nv == DecNewValue(tok, m.self.g5.val) IN
    IF nv.exc # "none" THEN Raise(m, nv.exc)
    ELSE TrySet(m, "set_volume", convertWithinRange(nv.val, 60, 86, -100, 100),
                "volume", nv.val)

DecPunctuationLevel(key) ==
    IF key = 110 THEN "none"
    ELSE IF key = 115 THEN "some"
    ELSE IF key = 97 THEN "all"
    ELSE "none"

DecSetSpeechPunctuation(m, tok) ==
    IF tok.none THEN Raise(m, "AttributeError: 'NoneType' object has no attribute 'lower'")
    ELSE LET key == Take(Lower(tok.s), 1) IN
         IF key = <<>> \/ key[1] \notin {110, 115, 97, 112}
         THEN Raise(m, "ValueError: Invalid DECtalk punctuation level")
         ELSE IF m.up
              THEN [m EXCEPT !.calls = Append(@, NameCall("set_punctuation",
                                                   DecPunctuationLevel(key[1]), TRUE)),
                             !.self.punctuation = StrVal(key[1])]
              ELSE [m EXCEPT !.calls = Append(@, NameCall("set_punctuation",
                                                   DecPunctuationLevel(key[1]), FALSE))]

VoiceTable ==
    <<"default", "MALE1", "MALE2", "MALE3", "MALE3", "CHILD_MALE",
      "FEMALE1", "FEMALE2", "FEMALE3", "CHILD_FEMALE">>

\* set_voice is not inside a try block
DecSetVoiceByID(m, voiceID) ==
    IF voiceID >= 0 /\ voiceID <= 9
    THEN IF m.up
         THEN [m EXCEPT !.calls = Append(@, NameCall("set_voice", VoiceTable[voiceID + 1], TRUE))]
         ELSE Raise([m EXCEPT !.calls = Append(@, NameCall("set_voice",
                                                    VoiceTable[voiceID + 1], FALSE))],
                    "SSIPCommunicationError")
    ELSE m

DecSetVoiceByName(m, tok) ==
    IF tok.none THEN Raise(m, "AttributeError: 'NoneType' object has no attribute 'lower'")
    ELSE LET key == Take(Lower(tok.s), 1) IN
         IF key = <<>> \/ key[1] # 112
         THEN Raise(m, "ValueError: Invalid DECtalk voice name")
         ELSE DecSetVoiceByID(m, 1)

\* val != "" : a token of split() is never empty and None != "" is true
NotEmptyStr(tok) == tok.none \/ tok.s # <<>>

TokIs(tok, s) == ~tok.none /\ tok.s = s

\* One pass of the loop body of processCommands
DecCommand(m, command) ==
    IF command = <<>> THEN m
    ELSE
    LET toks == SplitWS(command, <<>>)
        parms == [i \in 1..Max(3, Len(toks)) |->
                      IF i <= Len(toks) THEN Tok(toks[i]) ELSE NoneTok]
    IN
    IF parms[1].none THEN Raise(m, "TypeError: 'NoneType' object is not subscriptable")
    ELSE
    LET cmd == Take(parms[1].s, 2)
        val == parms[2]
    IN
    IF cmd = <<114, 97>> /\ NotEmptyStr(val) THEN DecSetSpeechRate(m, val)
    ELSE IF cmd = <<118, 111>> /\ NotEmptyStr(val) THEN DecSetSpeechVolume(m, val)
    ELSE IF cmd = <<112, 117>> /\ NotEmptyStr(val) THEN DecSetSpeechPunctuation(m, val)
    ELSE IF cmd = <<110, 97>> /\ NotEmptyStr(val) THEN DecSetVoiceByName(m, val)
    ELSE IF cmd = <<100, 118>> /\ NotEmptyStr(val) THEN
        LET sbc == parms[2]
            val3 == parms[3]
        IN
        IF TokIs(sbc, <<97, 112>>) /\ NotEmptyStr(val3) THEN DecSetSpeechPitch(m, val3)
        ELSE IF TokIs(sbc, <<103, 53>>) /\ NotEmptyStr(val3) THEN DecSetSpeechG5(m, val3)
        ELSE IF TokIs(sbc, <<112, 114>>) /\ NotEmptyStr(val3) THEN DecSetSpeechRange(m, val3)
        ELSE m
    ELSE IF cmd[1] = 110 THEN
        IF Len(cmd) < 2 THEN Raise(m, "IndexError: string index out of range")
        ELSE IF IsDigit(cmd[2]) THEN DecSetVoiceByID(m, cmd[2] - 48)
        ELSE m
    ELSE m

\* for command in commands: ... ; an exception ends the loop.  (The set
\* constructor binds m to the value of m0, which is then computed once.)
RECURSIVE DecCommandLoop(_, _, _)
DecCommandLoop(m0, commands, i) ==
    CHOOSE r \in {IF i > Len(commands) \/ m.raised # "none" THEN m
                  ELSE DecCommandLoop(DecCommand(m, commands[i]), commands, i + 1) :
                  m \in {m0}} : TRUE

processCommands(m, buffer) ==
    DecCommandLoop(m, SplitOn(Strip(buffer), 58, <<>>), 1)

NotePeak(m, buf) == [m EXCEPT !.peak = Max(@, Len(buf))]

\* The first block of the loop body of DECtalkEmulator.parse
DecDispatch(m, byte) ==
    IF byte = BreakChar THEN
        LET c == cancel(m) IN
        IF c.raised # "none" THEN c ELSE [c EXCEPT !.response = Append(@, 1)]
    ELSE IF byte = IndexChar THEN [m EXCEPT !.response = Append(@, IndexChar)]
    ELSE IF byte = CommandStart THEN [m EXCEPT !.self.commandMode = "True"]
    ELSE IF byte = CommandEnd THEN
        IF m.self.characterBuffer # <<>>
        THEN LET p == processCommands(m, m.self.characterBuffer) IN
             IF p.raised # "none" THEN p
             ELSE [p EXCEPT !.self.characterBuffer = <<>>, !.self.commandMode = "False"]
        ELSE [m EXCEPT !.self.commandMode = "False"]
    ELSE IF IsPrintable(byte)
        THEN NotePeak([m EXCEPT !.self.characterBuffer = Append(@, byte)],
                      Append(m.self.characterBuffer, byte))
    ELSE m

\* DecFlush with > for >= : the flush comes one byte late
MutDecFlush(m, byte) ==
    IF byte = BreakChar \/ byte = IndexChar \/ byte = CommandStart
       \/ Len(m.self.characterBuffer) > MaxBufferSize
    THEN LET s == speak(m, m.self.characterBuffer) IN
         IF s.raised # "none" THEN s ELSE [s EXCEPT !.self.characterBuffer = <<>>]
    ELSE m

\* The flush at the end of the loop body of DECtalkEmulator.parse
DecFlush(m, byte) ==
    IF byte = BreakChar \/ byte = IndexChar \/ byte = CommandStart
       \/ Len(m.self.characterBuffer) >= MaxBufferSize
    THEN LET s == speak(m, m.self.characterBuffer) IN
         IF s.raised # "none" THEN s ELSE [s EXCEPT !.self.characterBuffer = <<>>]
    ELSE m

DecByte(m, byte) ==
    CHOOSE r \in {IF d.raised # "none" THEN d ELSE DecFlush(d, byte) :
                  d \in {DecDispatch(m, byte)}} : TRUE

\* for byte in data: ... over data[lo..hi]; an exception ends the loop.
\* The range is run as its first half followed by its second half, which
\* visits the bytes in order.
RECURSIVE DecParseRange(_, _, _, _)
DecParseRange(m0, bytes, lo, hi) ==
    CHOOSE r \in {IF lo > hi \/ m.raised # "none" THEN m
                  ELSE IF lo = hi THEN DecByte(m, bytes[lo])
                  ELSE DecParseRange(DecParseRange(m, bytes, lo, (lo + hi) \div 2),
                                     bytes, ((lo + hi) \div 2) + 1, hi) :
                  m \in {m0}} : TRUE

DecParse(m, bytes) == DecParseRange(m, bytes, 1, Len(bytes))

(***************************************************************************)
(* LiteTalk decoder (litetalkemulator.py, on hardwaresynthemulator.py).    *)
(***************************************************************************)
LiteTalkInit(rate, pitch, volume) ==
    [rate |-> rate, pitch |-> pitch, punctuation |-> StrVal(110), volume |-> volume,
     commandMode |-> "None", received |-> <<>>, response |-> <<>>]

\* toInteger(bytes, dflt)
toInteger(bytes, dflt) ==
    IF IntLiteralOK(bytes) THEN IntLiteralValue(bytes) ELSE dflt

\* LiteIsRelative that never sees a sign
MutLiteIsRelative(strValue) == FALSE

\* strValue[0] == 0x2B or strValue[0] == 0x2D where strValue is a bytearray
LiteIsRelative(strValue) ==
    strValue # <<>> /\ (strValue[1] = 43 \/ strValue[1] = 45)

LiteSetSpeechRate(m, strValue) ==
    LET newValue == IF LiteIsRelative(strValue)
                    THEN m.self.rate + toInteger(strValue, 0)
                    ELSE toInteger(strValue, 8)
    IN TrySet(m, "set_rate", convertWithinRange(newValue, 0, 9, -100, 100),
              "rate", newValue)

LiteSetSpeechPitch(m, strValue) ==
    LET newValue == IF LiteIsRelative(strValue)
                    THEN m.self.pitch + toInteger(strValue, 0)
                    ELSE toInteger(strValue, 50)
    IN TrySet(m, "set_pitch", convertWithinRange(newValue, 0, 99, -100, 100),
              "pitch", newValue)

\* the relative path calls self.toInnteger, which does not exist
LiteSetSpeechVolume(m, strValue) ==
    IF LiteIsRelative(strValue)
    THEN Raise(m, "AttributeError: object has no attribute 'toInnteger'")
    ELSE LET newValue == toInteger(strValue, 5) IN
         TrySet(m, "set_volume", convertWithinRange(newValue, 0, 9, -100, 100),
                "volume", newValue)

\* the table read from its other end
MutLitePunctuationTable == <<"none", "some", "most", "all">>

LitePunctuationTable == <<"all", "most", "some", "none">>

LiteSetSpeechPunctuation(m, strValue) ==
    LET key == toInteger(strValue, 7) IN
    IF key < 0 \/ key > 15
    THEN Raise(m, "ValueError: Invalid LiteTalk punctuation level")
    ELSE IF m.up
         THEN [m EXCEPT !.calls = Append(@, NameCall("set_punctuation",
                                              LitePunctuationTable[(key % 4) + 1], TRUE)),
                        !.self.punctuation = IntVal(key)]
         ELSE [m EXCEPT !.calls = Append(@, NameCall("set_punctuation",
                                              LitePunctuationTable[(key % 4) + 1], FALSE))]

\* setter(self.received); self.received.clear(); self.commandMode = False
LiteApply(s) ==
    IF s.raised # "none" THEN s
    ELSE [s EXCEPT !.self.received = <<>>, !.self.commandMode = "False"]

\* The if / elif chain of the loop body of LiteTalkEmulator.parse
LiteDispatch(m, byte) ==
    IF byte = CancelCommand THEN
        LET c == cancel(m) IN
        IF c.raised # "none" THEN c
        ELSE [c EXCEPT !.self.received = <<>>, !.self.response = Append(@, 13)]
    ELSE IF byte = CommandCode THEN
        LET s == speak(m, m.self.received) IN
        IF s.raised # "none" THEN s
        ELSE [s EXCEPT !.self.received = <<>>, !.self.commandMode = "True"]
    ELSE IF m.self.commandMode = "True" THEN
        IF byte = InterrogationCommand
        THEN [m EXCEPT !.self.response = @ \o <<0, 32>> \o DeviceIdString \o <<13, 127>>,
                       !.self.commandMode = "False"]
        ELSE IF byte = IdCommand
        THEN [m EXCEPT !.self.response = @ \o DeviceIdString \o <<13>>,
                       !.self.commandMode = "False"]
        ELSE IF byte = IndexCommand
        THEN [m EXCEPT !.self.response = Append(@, 13), !.self.commandMode = "False"]
        ELSE IF byte = RateCommand THEN LiteApply(LiteSetSpeechRate(m, m.self.received))
        ELSE IF byte = PitchCommand THEN LiteApply(LiteSetSpeechPitch(m, m.self.received))
        ELSE IF byte = VolumeCommand THEN LiteApply(LiteSetSpeechVolume(m, m.self.received))
        ELSE IF byte = PunctCommand
        THEN LiteApply(LiteSetSpeechPunctuation(m, m.self.received))
        ELSE IF IsDigit(byte) \/ byte = 43 \/ byte = 45
        THEN NotePeak([m EXCEPT !.self.received = Append(@, byte)],
                      Append(m.self.received, byte))
        ELSE [m EXCEPT !.self.received = <<>>, !.self.commandMode = "False"]
    ELSE IF IsPrintable(byte)
        THEN NotePeak([m EXCEPT !.self.received = Append(@, byte)],
                      Append(m.self.received, byte))
    ELSE m

\* LiteFlush flushing on the interrogation byte as well
MutLiteFlush(m, byte) ==
    IF byte = 0 \/ byte = ReturnChar \/ byte = InterrogationCommand
       \/ Len(m.self.received) >= MaxBufferSize
    THEN LET s == speak(m, m.self.received) IN
         IF s.raised # "none" THEN s ELSE [s EXCEPT !.self.received = <<>>]
    ELSE m

\* The flush at the end of the loop body of LiteTalkEmulator.parse
LiteFlush(m, byte) ==
    IF byte = 0 \/ byte = ReturnChar \/ Len(m.self.received) >= MaxBufferSize
    THEN LET s == speak(m, m.self.received) IN
         IF s.raised # "none" THEN s ELSE [s EXCEPT !.self.received = <<>>]
    ELSE m

LiteByte(m, byte) ==
    CHOOSE r \in {IF d.raised # "none" THEN d ELSE LiteFlush(d, byte) :
                  d \in {LiteDispatch(m, byte)}} : TRUE

\* for byte in data: ... over data[lo..hi], first half then second half
RECURSIVE LiteParseRange(_, _, _, _)
LiteParseRange(m0, bytes, lo, hi) ==
    CHOOSE r \in {IF lo > hi \/ m.raised # "none" THEN m
                  ELSE IF lo = hi THEN LiteByte(m, bytes[lo])
                  ELSE LiteParseRange(LiteParseRange(m, bytes, lo, (lo + hi) \div 2),
                                      bytes, ((lo + hi) \div 2) + 1, hi) :
                  m \in {m0}} : TRUE

LiteParse(m, bytes) == LiteParseRange(m, bytes, 1, Len(bytes))

(***************************************************************************)
(* The program state.                                                      *)
(*   family        which emulator the process runs                         *)
(*   dec, lite     the DECtalk / LiteTalk session object                   *)
(*   calls         the back-end calls made since construction              *)
(*   raised        the exception that ended the process, or "none"         *)
(*   backendOK     whether the speech service accepts calls                *)
(*   data          the argument of the latest parse call (<<>> after a     *)
(*                 failed or empty read)                                   *)
(*   input         all bytes passed to parse so far                        *)
(*   output        the responses parse returned / the bytes written back   *)
(*   peak          the largest size the scratch buffer has had             *)
(*   nparse        the number of parse calls made                          *)
(*   pc            "test" when parse is called directly, else the position *)
(*                 of emulate(): check, sleep, open, read, terminated      *)
(*   serialPort    self.serialPort                                         *)
(*   openHandles   the descriptors the process holds open                  *)
(*   devicePresent whether the device path exists                          *)
(*   polls         how many times openSerialPort has slept (counted up to  *)
(*                 MaxPolls)                                               *)
(*   lastRead      what the latest os.read on the current handle gave:     *)
(*                 "none" (not read yet), "data" or "failed"               *)
(***************************************************************************)
Buffer == IF family = "DECtalk" THEN dec.characterBuffer ELSE lite.received

InitDecoder ==
    /\ family \in {"DECtalk", "LiteTalk"}
    /\ \E r \in (IF family = "DECtalk" THEN {400, 500} ELSE {400}) :
           dec = DECtalkInit(r, 200, 50)
    /\ lite = LiteTalkInit(5, 50, 5)
    /\ calls = <<>>
    /\ raised = "none"
    /\ backendOK = TRUE
    /\ data = <<>>
    /\ input = <<>>
    /\ output = <<>>
    /\ peak = 0
    /\ nparse = 0
    /\ serialPort = NoneVal
    /\ openHandles = {}
    /\ polls = 0
    /\ lastRead = "none"

\* The decoder object on its own: parse is called directly.
\* no rescaling is under way
NoConversion == [oldValue |-> 0, r1m |-> 0, r1x |-> 1, newValue |-> 0, done |-> TRUE]

Init ==
    /\ InitDecoder
    /\ conv = NoConversion
    /\ pc = "test"
    /\ devicePresent = FALSE

DECtalkParse(bytes) ==
    /\ family = "DECtalk"
    /\ pc = "test"
    /\ raised = "none"
    /\ \E m \in {DecParse(Machine(dec, calls, backendOK), bytes)} :
        /\ dec' = m.self
        /\ calls' = m.calls
        /\ raised' = m.raised
        /\ output' = IF m.raised = "none" THEN output \o m.response ELSE output
        /\ peak' = Max(peak, m.peak)
    /\ data' = bytes
    /\ input' = input \o bytes
    /\ nparse' = nparse + 1
    /\ UNCHANGED <<conv, family, lite, backendOK, pc, serialPort, openHandles,
                   devicePresent, polls, lastRead>>

LiteTalkParse(bytes) ==
    /\ family = "LiteTalk"
    /\ pc = "test"
    /\ raised = "none"
    /\ \E m \in {LiteParse(Machine(lite, calls, backendOK), bytes)} :
        /\ lite' = m.self
        /\ calls' = m.calls
        /\ raised' = m.raised
        /\ peak' = Max(peak, m.peak)
    /\ data' = bytes
    /\ input' = input \o bytes
    /\ nparse' = nparse + 1
    /\ UNCHANGED <<conv, family, dec, backendOK, output, pc, serialPort, openHandles,
                   devicePresent, polls, lastRead>>

(***************************************************************************)
(* Inputs: command strings of the two protocols.                           *)
(***************************************************************************)
MaxParse == 3

\* the decimal digits of n >= 0
RECURSIVE Decimal(_)
Decimal(n) == IF n < 10 THEN <<48 + n>> ELSE Append(Decimal(n \div 10), 48 + (n % 10))

\* "[" + s + "]"
Bracket(s) == <<CommandStart>> \o s \o <<CommandEnd>>

\* ":ra " + value
RaCmd(value) == <<58, 114, 97, 32>> \o value
\* ":vo " + value
VoCmd(value) == <<58, 118, 111, 32>> \o value
\* ":pu " + letter and ":na " + letter
PuCmd(letter) == <<58, 112, 117, 32, letter>>
NaCmd(letter) == <<58, 110, 97, 32, letter>>

AbsValues == {300}
Deltas == {50}

\* `:ra v`, `:ra +d`, `:ra -d`
DecRateCommands ==
    {Bracket(RaCmd(Decimal(v))) : v \in AbsValues}
    \cup {Bracket(RaCmd(<<sg>> \o Decimal(d))) : sg \in {43, 45}, d \in Deltas}

\* pu / na with a letter outside the mapping ("x", "q"), each followed by
\* a valid volume command
DecInvalidCommands ==
    {Bracket(PuCmd(120) \o VoCmd(Decimal(60))), Bracket(NaCmd(113) \o VoCmd(Decimal(60)))}

\* an unknown code "zz 1", the one-character code "n", a sub-command of
\* one blank, "ra" without a value, "ra" with the value "abc"; each
\* followed by a valid volume command
DecMalformedCommands ==
    {Bracket(<<58, 122, 122, 32, 49>> \o VoCmd(Decimal(60))),
     Bracket(<<58, 110>> \o VoCmd(Decimal(60))),
     Bracket(<<58, 32>> \o VoCmd(Decimal(60))),
     Bracket(<<58, 114, 97>> \o VoCmd(Decimal(60))),
     Bracket(RaCmd(<<97, 98, 99>>) \o VoCmd(Decimal(60)))}

\* `:pu s`, `:na p`, `:vo 60`, "hi" + index byte
DecValidCommands ==
    {Bracket(PuCmd(115)), Bracket(NaCmd(112)), Bracket(VoCmd(Decimal(60))),
     <<104, 105, IndexChar>>}

DecCommands ==
    DecRateCommands \cup DecInvalidCommands \cup DecMalformedCommands
    \cup DecValidCommands

LiteAbsValues == {7, 12}
LiteDeltas == {2, 15}
LiteNumericTerminators == {RateCommand, PitchCommand, VolumeCommand}

\* 0x01 + text + terminator
LiteCmd(text, terminator) == <<CommandCode>> \o text \o <<terminator>>

LiteAbsCommands ==
    {LiteCmd(Decimal(v), t) : v \in LiteAbsValues, t \in LiteNumericTerminators}

LiteRelCommands ==
    {LiteCmd(<<sg>> \o Decimal(d), t) :
        sg \in {43, 45}, d \in LiteDeltas, t \in LiteNumericTerminators}

\* punctuation codes 3, 16 and -1, each followed by the literal "a" + CR
LitePunctCommands ==
    {LiteCmd(Decimal(3), PunctCommand) \o <<97, ReturnChar>>,
     LiteCmd(Decimal(16), PunctCommand) \o <<97, ReturnChar>>,
     LiteCmd(<<45, 49>>, PunctCommand) \o <<97, ReturnChar>>}

LiteCommands == LiteAbsCommands \cup LiteRelCommands \cup LitePunctCommands

DECtalkCommand ==
    /\ nparse < MaxParse
    /\ \E c \in DecCommands : DECtalkParse(c)

LiteTalkCommand ==
    /\ nparse < MaxParse
    /\ \E c \in LiteCommands : LiteTalkParse(c)

Next == DECtalkCommand \/ LiteTalkCommand

Spec == Init /\ [][Next]_vars

\* this step is a parse call with the argument c
Parsed(c) == nparse' = nparse + 1 /\ data' = c

\* ":ra " + sign + d in brackets
RaDelta(sg, d) == Bracket(RaCmd(<<sg>> \o Decimal(d)))

\* C2: DECtalk: `:ra v` stores the rate v, and `:ra +d` / `:ra -d` store
\* the current rate plus / minus d (from 400: `:ra 300` gives 300, then
\* `:ra +50` gives 350).
C2_RelativeRate ==
    [][/\ \A v \in AbsValues :
            Parsed(Bracket(RaCmd(Decimal(v)))) => dec'.rate = v
       /\ \A d \in Deltas :
            /\ Parsed(RaDelta(43, d)) => dec'.rate = dec.rate + d
            /\ Parsed(RaDelta(45, d)) => dec'.rate = dec.rate - d]_vars

\* the session parameters of the LiteTalk decoder
LiteParams == <<lite.rate, lite.pitch, lite.volume, lite.punctuation>>

\* C3: a DECtalk command with an invalid punctuation letter or voice name,
\* or a LiteTalk punctuation code outside 0..15, does not propagate out of
\* parse and changes no parameter; the decoder goes on with what follows
\* (the volume command after it, the literal "a" + CR after it).
C3_ValidationNeverAborts ==
    [][/\ \A c \in DecInvalidCommands :
            Parsed(c) =>
                /\ raised' = "none"
                /\ dec'.rate = dec.rate /\ dec'.pitch = dec.pitch
                /\ dec'.punctuation = dec.punctuation
                /\ dec'.volume = 60
                /\ dec'.characterBuffer = <<>>
       /\ \A c \in LitePunctCommands \ {LiteCmd(Decimal(3), PunctCommand) \o <<97, ReturnChar>>} :
            Parsed(c) =>
                /\ raised' = "none"
                /\ LiteParams' = LiteParams
                /\ calls' = Append(calls, SpeakCall(<<97>>))
                /\ lite'.received = <<>>]_vars

\* C4: a DECtalk sub-command that is unknown or malformed raises nothing,
\* calls no setter and changes no parameter, and the sub-command after it
\* (here `:vo 60`) is processed.
C4_MalformedIgnored ==
    [][\A c \in DecMalformedCommands :
          Parsed(c) =>
              /\ raised' = "none"
              /\ calls' = Append(calls, SetCall("set_volume", 20, TRUE))
              /\ dec' = [dec EXCEPT !.volume = 60, !.commandMode = "False"]]_vars

\* the value the back-end may be sent for a raw value in a native range
\* lo..hi: inside -100..100, and at the end of it outside the range
SentClamped(sent, raw, lo, hi) ==
    /\ sent >= -100 /\ sent <= 100
    /\ raw >= hi => sent = 100
    /\ raw <= lo => sent = -100

\* C5: LiteTalk rate (0x73) and pitch (0x70): an absolute value v is
\* stored as v, a signed delta +d / -d is stored as the current value plus
\* / minus d; the stored value is not clamped to the native range, the
\* value sent to the back-end is.
C5_LiteRelative ==
    [][/\ \A v \in LiteAbsValues :
            /\ Parsed(LiteCmd(Decimal(v), RateCommand)) =>
                   /\ lite'.rate = v
                   /\ calls' = Append(calls, calls'[Len(calls')])
                   /\ calls'[Len(calls')].op = "set_rate"
                   /\ SentClamped(calls'[Len(calls')].val, v, 0, 9)
            /\ Parsed(LiteCmd(Decimal(v), PitchCommand)) =>
                   /\ lite'.pitch = v
                   /\ calls' = Append(calls, calls'[Len(calls')])
                   /\ calls'[Len(calls')].op = "set_pitch"
                   /\ SentClamped(calls'[Len(calls')].val, v, 0, 99)
       /\ \A d \in LiteDeltas : \A sg \in {43, 45} :
            LET delta == IF sg = 43 THEN d ELSE 0 - d IN
            /\ Parsed(LiteCmd(<<sg>> \o Decimal(d), RateCommand)) =>
                   /\ lite'.rate = lite.rate + delta
                   /\ calls' = Append(calls, calls'[Len(calls')])
                   /\ calls'[Len(calls')].op = "set_rate"
                   /\ SentClamped(calls'[Len(calls')].val, lite.rate + delta, 0, 9)
            /\ Parsed(LiteCmd(<<sg>> \o Decimal(d), PitchCommand)) =>
                   /\ lite'.pitch = lite.pitch + delta
                   /\ calls' = Append(calls, calls'[Len(calls')])
                   /\ calls'[Len(calls')].op = "set_pitch"
                   /\ SentClamped(calls'[Len(calls')].val, lite.pitch + delta, 0, 99)]_vars

\* rate 12 then +15: the stored rate is 27, outside 0..9, and 100 was sent
C5_Witness ==
    /\ family = "LiteTalk"
    /\ input = LiteCmd(Decimal(12), RateCommand) \o LiteCmd(<<43>> \o Decimal(15), RateCommand)
    /\ lite.rate = 27
    /\ calls[Len(calls)].val = 100

\* C6: LiteTalk volume (0x76) follows the same rule: an absolute value is
\* stored as it is, a signed delta is added to the current volume; the
\* buffer is cleared and the mode returns to Idle.
C6_LiteVolume ==
    [][/\ \A v \in LiteAbsValues :
            Parsed(LiteCmd(Decimal(v), VolumeCommand)) =>
                /\ raised' = "none" /\ lite'.volume = v
                /\ lite'.received = <<>> /\ lite'.commandMode = "False"
       /\ \A d \in LiteDeltas : \A sg \in {43, 45} :
            Parsed(LiteCmd(<<sg>> \o Decimal(d), VolumeCommand)) =>
                /\ raised' = "none"
                /\ lite'.volume = lite.volume + (IF sg = 43 THEN d ELSE 0 - d)
                /\ lite'.received = <<>> /\ lite'.commandMode = "False"]_vars

(***************************************************************************)
(* Inputs: long runs of text, to fill the scratch buffer.                  *)
(***************************************************************************)
OverflowSlack == 3
MaxRuns == 3

Run(b, n) == [i \in 1..n |-> b]

\* "a", " " and their runs of 4095 bytes, and "["
DecRuns ==
    {Run(b, n) : b \in {97, 32}, n \in {1, MaxBufferSize - 1}} \cup {<<CommandStart>>}

\* "a", " ", "5" and their runs of 4095 bytes, and the command code
LiteRuns ==
    {Run(b, n) : b \in {97, 32, 53}, n \in {1, MaxBufferSize - 1}} \cup {<<CommandCode>>}

DECtalkRun ==
    \E c \in DecRuns :
        /\ nparse < MaxRuns
        /\ Len(input) + Len(c) <= MaxBufferSize + OverflowSlack
        /\ DECtalkParse(c)

LiteTalkRun ==
    \E c \in LiteRuns :
        /\ nparse < MaxRuns
        /\ Len(input) + Len(c) <= MaxBufferSize + OverflowSlack
        /\ LiteTalkParse(c)

NextOverflow == DECtalkRun \/ LiteTalkRun

SpecOverflow == Init /\ [][NextOverflow]_vars

\* the bytes that the decoder, as it stands, appends to the scratch buffer
Accumulates(b) ==
    IF family = "DECtalk" THEN IsPrintable(b) /\ b # CommandStart /\ b # CommandEnd
    ELSE IF lite.commandMode = "True" THEN IsDigit(b) \/ IsSign(b)
    ELSE IsPrintable(b) /\ b # CommandCode /\ b # CancelCommand

\* what a parse call that only appends must do to the buffer and the log
AppendsAndFlushes(chunk) ==
    LET all == Buffer \o chunk
        first == SubSeq(all, 1, MaxBufferSize)
    IN IF Len(all) < MaxBufferSize
       THEN Buffer' = all /\ calls' = calls
       ELSE /\ Buffer' = SubSeq(all, MaxBufferSize + 1, Len(all))
            /\ calls' = IF IsBlank(first) THEN calls ELSE Append(calls, SpeakCall(first))

\* C1: the scratch buffer of either decoder never holds more than 4096
\* bytes, not even inside a parse call; the append that brings it to 4096
\* bytes is followed at once by one speech flush of those 4096 bytes (one
\* back-end speak call unless they are blank) and leaves the buffer empty.
C1_BufferBounded ==
    /\ [](Len(Buffer) < MaxBufferSize /\ peak <= MaxBufferSize)
    /\ [][(nparse' = nparse + 1 /\ \A i \in 1..Len(data') : Accumulates(data'[i]))
            => AppendsAndFlushes(data')]_vars

\* the buffer has been filled to 4096 bytes and flushed by one speak call
C1_Witness ==
    /\ peak = MaxBufferSize
    /\ Buffer = <<>>
    /\ Len(calls) = 1
    /\ calls[1].op = "speak" /\ Len(calls[1].text) = MaxBufferSize

(***************************************************************************)
(* Inputs: one byte stream cut into chunks in every way (the transport     *)
(* hands parse whatever os.read returns).                                  *)
(***************************************************************************)
MaxStream == 3

\* BREAK, INDEX, "]", "h", "n"
DecAlphabet == {BreakChar, IndexChar, CommandEnd, 104, 110}

\* the command code, CR, "5", "a", "s"
LiteAlphabet == {CommandCode, ReturnChar, 53, 97, RateCommand}

Chunks(alphabet) == UNION {[1..n -> alphabet] : n \in 1..MaxStream}

DECtalkChunk ==
    \E c \in Chunks(DecAlphabet) :
        /\ Len(input) + Len(c) <= MaxStream
        /\ DECtalkParse(c)

LiteTalkChunk ==
    \E c \in Chunks(LiteAlphabet) :
        /\ Len(input) + Len(c) <= MaxStream
        /\ LiteTalkParse(c)

NextChunks == DECtalkChunk \/ LiteTalkChunk

SpecChunks == Init /\ [][NextChunks]_vars

\* the outcome of passing the whole stream to parse in one call, from the
\* session as constructed with the rate r
WholeDec(r) == DecParse(Machine(DECtalkInit(r, 200, 50), <<>>, TRUE), input)
WholeLite == LiteParse(Machine(LiteTalkInit(5, 50, 5), <<>>, TRUE), input)

\* C7: however the stream received so far was cut into chunks, the
\* back-end calls, the session (parameters, mode flag, buffer) and the
\* concatenated response bytes are those of one parse call on the whole
\* stream, for the DECtalk and for the LiteTalk decoder.
C7_ChunkingIndependent ==
    IF family = "DECtalk"
    THEN \E r \in {400, 500} : \E w \in {WholeDec(r)} :
            /\ dec = w.self
            /\ calls = w.calls
            /\ output = (IF w.raised = "none" THEN w.response ELSE <<>>)
    ELSE \E w \in {WholeLite} :
            /\ lite = w.self
            /\ calls = w.calls

\* 0x01 for each break byte and 0x0B for each index byte of the chunk, in
\* the order of arrival
Acknowledgements(chunk) ==
    LET marks == SelectSeq(chunk, LAMBDA b : b = BreakChar \/ b = IndexChar)
    IN [i \in 1..Len(marks) |-> IF marks[i] = BreakChar THEN 1 ELSE IndexChar]

\* the number of cancel calls in the back-end log cs
Cancels(cs) == Cardinality({i \in 1..Len(cs) : cs[i].op = "cancel"})

\* C20: DECtalk: the response returned for a chunk is one byte 0x01 for
\* each break byte and one byte 0x0B for each index byte of the chunk, in
\* the order received, and nothing else; each break byte causes exactly
\* one cancel call.
C20_ResponsePerChunk ==
    [][(family = "DECtalk" /\ nparse' = nparse + 1) =>
          /\ output' = output \o Acknowledgements(data')
          /\ Cancels(calls') = Cancels(calls) + Len(SelectSeq(data', LAMBDA b : b = BreakChar))]_vars

(***************************************************************************)
(* The serial transport: emulate() and openSerialPort() of RPItalk (the    *)
(* DECtalk process, constructed with the rate 500) and of                  *)
(* HardwareSynthEmulator (the LiteTalk process).  The descriptors 0, 1 and *)
(* 2 are the standard streams, so os.open returns 3 or more; os.close of a *)
(* descriptor the process holds succeeds.                                  *)
(***************************************************************************)
MaxReads == 2
MaxPolls == 2

InitTransport ==
    /\ InitDecoder
    /\ conv = NoConversion
    /\ family = "DECtalk" => dec.rate = 500
    /\ pc = "check"
    /\ devicePresent \in BOOLEAN

\* what the transport leaves alone while it waits for and opens the device
Decoder == <<conv, family, dec, lite, calls, backendOK, data, input, output, peak, nparse>>

\* the device node appears / goes away
Plug ==
    /\ ~devicePresent
    /\ devicePresent' = TRUE
    /\ UNCHANGED <<Decoder, raised, pc, serialPort, openHandles, polls, lastRead>>

Unplug ==
    /\ devicePresent
    /\ devicePresent' = FALSE
    /\ UNCHANGED <<Decoder, raised, pc, serialPort, openHandles, polls, lastRead>>

MutCheckPath ==
    /\ pc = "check"
    /\ pc' = "open"
    /\ UNCHANGED <<Decoder, raised, serialPort, openHandles, devicePresent, polls,
                   lastRead>>

\* while not os.path.exists(self.serialDevice)
CheckPath ==
    /\ pc = "check"
    /\ pc' = IF devicePresent THEN "open" ELSE "sleep"
    /\ UNCHANGED <<Decoder, raised, serialPort, openHandles, devicePresent, polls,
                   lastRead>>

\* time.sleep(1.0), then the loop condition again
Sleep ==
    /\ pc = "sleep"
    /\ pc' = "check"
    /\ polls' = Min(polls + 1, MaxPolls)
    /\ UNCHANGED <<Decoder, raised, serialPort, openHandles, devicePresent, lastRead>>

\* the descriptor os.open returns: the lowest one that is free
NewHandle ==
    CHOOSE h \in 3..(3 + Cardinality(openHandles)) :
        /\ h \notin openHandles
        /\ \A g \in 3..(h - 1) : g \in openHandles

MutOpenOK ==
    /\ pc = "open"
    /\ devicePresent
    /\ serialPort' = IntVal(NewHandle)
    /\ openHandles' = openHandles \cup {NewHandle}
    /\ lastRead' = "none"
    /\ pc' = "read"
    /\ dec' = DECtalkInit(500, 200, 50)
    /\ lite' = LiteTalkInit(5, 50, 5)
    /\ UNCHANGED <<conv, family, calls, backendOK, data, input, output, peak, nparse,
                   raised, devicePresent, polls>>

\* os.open and the termios calls succeed
OpenOK ==
    /\ pc = "open"
    /\ devicePresent
    /\ serialPort' = IntVal(NewHandle)
    /\ openHandles' = openHandles \cup {NewHandle}
    /\ lastRead' = "none"
    /\ pc' = "read"
    /\ UNCHANGED <<Decoder, raised, devicePresent, polls>>

\* os.open raises OSError (the node has gone, or may not be opened):
\* openSerialPort raises RuntimeError, which nothing catches
OpenFail ==
    /\ pc = "open"
    /\ raised' = "RuntimeError: Failed to open/configure serial device"
    /\ pc' = "terminated"
    /\ UNCHANGED <<Decoder, serialPort, openHandles, devicePresent, polls, lastRead>>

\* os.open succeeds, then tty.setraw, tcgetattr or tcsetattr raises
\* termios.error, which is no OSError and which nothing catches
ConfigureFail ==
    /\ pc = "open"
    /\ devicePresent
    /\ serialPort' = IntVal(NewHandle)
    /\ openHandles' = openHandles \cup {NewHandle}
    /\ raised' = "termios.error"
    /\ pc' = "terminated"
    /\ UNCHANGED <<Decoder, devicePresent, polls, lastRead>>

\* the bytes os.write accepts: all of them, some, or none (OSError, caught)
Written(response) == {Take(response, k) : k \in 0..Len(response)}

\* RPItalk.emulate: data = os.read(..); response = self.parse(data);
\* if response: self.writeToHost(response)
ReadDataDEC(bytes) ==
    /\ family = "DECtalk"
    /\ pc = "read"
    /\ devicePresent
    /\ Len(bytes) \in 1..ReadSize
    /\ \E m \in {DecParse(Machine(dec, calls, backendOK), bytes)} :
        /\ dec' = m.self
        /\ calls' = m.calls
        /\ raised' = m.raised
        /\ peak' = Max(peak, m.peak)
        /\ IF m.raised = "none"
           THEN /\ pc' = "read"
                /\ \E w \in Written(m.response) : output' = output \o w
           ELSE /\ pc' = "terminated"
                /\ output' = output
    /\ data' = bytes
    /\ input' = input \o bytes
    /\ nparse' = nparse + 1
    /\ lastRead' = "data"
    /\ UNCHANGED <<conv, family, lite, backendOK, serialPort, openHandles, devicePresent,
                   polls>>

\* HardwareSynthEmulator.emulate: self.parse(data); if self.response:
\* self.writeToHost(self.response); self.response.clear()
ReadDataLite(bytes) ==
    /\ family = "LiteTalk"
    /\ pc = "read"
    /\ devicePresent
    /\ Len(bytes) \in 1..ReadSize
    /\ \E m \in {LiteParse(Machine(lite, calls, backendOK), bytes)} :
        /\ calls' = m.calls
        /\ raised' = m.raised
        /\ peak' = Max(peak, m.peak)
        /\ IF m.raised = "none"
           THEN /\ pc' = "read"
                /\ lite' = [m.self EXCEPT !.response = <<>>]
                /\ \E w \in Written(m.self.response) : output' = output \o w
           ELSE /\ pc' = "terminated"
                /\ lite' = m.self
                /\ output' = output
    /\ data' = bytes
    /\ input' = input \o bytes
    /\ nparse' = nparse + 1
    /\ lastRead' = "data"
    /\ UNCHANGED <<conv, family, dec, backendOK, serialPort, openHandles, devicePresent,
                   polls>>

MutReadFail ==
    /\ pc = "read"
    /\ lastRead' = "failed"
    /\ data' = <<>>
    /\ pc' = "check"
    /\ UNCHANGED <<conv, family, dec, lite, calls, backendOK, input, output, peak, nparse,
                   raised, devicePresent, polls, serialPort, openHandles>>

\* ReadFail that forgets the handle without closing it
MutReadFailLeaks ==
    /\ pc = "read"
    /\ lastRead' = "failed"
    /\ data' = <<>>
    /\ serialPort' = NoneVal
    /\ pc' = "check"
    /\ UNCHANGED <<conv, family, dec, lite, calls, backendOK, input, output, peak, nparse,
                   raised, devicePresent, polls, openHandles>>

\* select or os.read raises OSError, or os.read returns b"":
\* except OSError: os.close(self.serialPort); self.serialPort = None
ReadFail ==
    /\ pc = "read"
    /\ lastRead' = "failed"
    /\ data' = <<>>
    /\ openHandles' = openHandles \ {serialPort.val}
    /\ serialPort' = NoneVal
    /\ pc' = "check"
    /\ UNCHANGED <<conv, family, dec, lite, calls, backendOK, input, output, peak, nparse,
                   raised, devicePresent, polls>>

\* what the host sends: "[:ra 300]", "hi", the index byte, "[:n]"
DecReads ==
    {Bracket(RaCmd(Decimal(300))), <<104, 105>>, <<IndexChar>>, Bracket(<<58, 110>>)}

\* what the host sends: rate 7, "hi", a command left open after "5", the
\* index command, punctuation code 16
LiteReads ==
    {LiteCmd(Decimal(7), RateCommand), <<104, 105>>, <<CommandCode, 53>>,
     LiteCmd(<<>>, IndexCommand), LiteCmd(Decimal(16), PunctCommand)}

DECtalkRead ==
    /\ nparse < MaxReads
    /\ \E c \in DecReads : ReadDataDEC(c)

LiteTalkRead ==
    /\ nparse < MaxReads
    /\ \E c \in LiteReads : ReadDataLite(c)

NextTransport ==
    \/ Plug
    \/ Unplug
    \/ CheckPath
    \/ Sleep
    \/ OpenOK
    \/ OpenFail
    \/ ConfigureFail
    \/ DECtalkRead
    \/ LiteTalkRead
    \/ ReadFail

\* The process keeps running: the check of the path, the sleep and the open
\* call each return.  A read may block for ever.
FairTransport ==
    /\ InitTransport
    /\ [][NextTransport]_vars
    /\ WF_vars(CheckPath)
    /\ WF_vars(Sleep)
    /\ WF_vars(OpenOK \/ OpenFail \/ ConfigureFail)

Waiting == pc \in {"check", "sleep"}

\* the wait loop of openSerialPort: no raise, and one check of the path
\* after every sleep
WaitsWithoutRaising ==
    [][/\ (Waiting /\ ~devicePresent) => (Waiting' /\ raised' = "none")
       /\ (pc = "sleep" /\ pc' # pc) => (pc' = "check" /\ raised' = "none")
       /\ (pc = "check" /\ pc' # pc) =>
              (pc' = (IF devicePresent THEN "open" ELSE "sleep") /\ raised' = "none")]_vars

\* C8 as stated: while the path does not exist the transport waits
\* without raising, checking the path once per sleep; once the path exists
\* and stays, the transport reaches the reading state.
C8_AsStated ==
    /\ WaitsWithoutRaising
    /\ (Waiting /\ devicePresent) ~> (pc = "read" \/ ~devicePresent)

\* C8: while the path does not exist the transport waits without raising,
\* checking the path once per sleep; once the path exists and stays, the
\* transport reaches the reading state unless the open or the
\* configuration of the device fails, which ends the process.
C8_WaitsThenOpens ==
    /\ WaitsWithoutRaising
    /\ (Waiting /\ devicePresent) ~> (pc = "read" \/ ~devicePresent \/ pc = "terminated")

\* the transport has slept at least once and is now reading
C8_Witness ==
    /\ polls >= 1
    /\ pc = "read"
    /\ lastRead = "none"
    /\ nparse = 0

\* this step is a read that failed or returned no byte
ReadFailed == lastRead # "failed" /\ lastRead' = "failed"

\* C9: a read that fails or returns no byte feeds nothing to the decoder,
\* closes and forgets the handle and sends the transport back to the wait
\* loop without ending the process; if from then on the path is present
\* and the open succeeds, the transport reads again.
C9_ReadFailureReconnects ==
    /\ [][ReadFailed =>
            /\ nparse' = nparse /\ input' = input /\ calls' = calls
            /\ serialPort # NoneVal
            /\ serialPort.val \notin openHandles'
            /\ serialPort' = NoneVal
            /\ pc' = "check"
            /\ raised' = "none"]_vars
    /\ [](([]devicePresent /\ [](pc # "terminated") /\ lastRead = "failed")
            => <>(pc = "read"))

\* bytes were read on an earlier handle, and a new handle is open for reading
C9_Witness ==
    /\ pc = "read"
    /\ lastRead = "none"
    /\ nparse >= 1
    /\ serialPort # NoneVal

\* C10: from the failed read to the reopened handle no step changes the
\* session (rate, pitch, volume, punctuation, mode flag, buffer), the
\* back-end log or the bytes written; only the handle is replaced.
C10_SessionSurvivesReconnect ==
    [][(ReadFailed \/ pc \in {"check", "sleep", "open"}) =>
          /\ dec' = dec /\ lite' = lite
          /\ calls' = calls /\ output' = output]_vars

\* a session that is not the initial one (a rate was set, the buffer holds
\* text) is found as it was on a handle opened after a failed read
C10_Witness ==
    /\ pc = "read"
    /\ lastRead = "none"
    /\ nparse = MaxReads
    /\ Buffer # <<>>
    /\ IF family = "DECtalk" THEN dec.rate = 300 ELSE lite.rate = 7

\* C28: across reads, disconnects and reconnects at most one device handle
\* is open at a time: a handle is opened only when the previous one has
\* been closed and forgotten, and select, os.read and os.write are issued
\* on the handle that is open.
C28_OneHandleAtATime ==
    [][/\ Cardinality(openHandles) <= 1 /\ Cardinality(openHandles') <= 1
       /\ openHandles' \ openHandles # {} => (openHandles = {} /\ serialPort = NoneVal)
       /\ pc = "read" => (serialPort # NoneVal /\ serialPort.val \in openHandles)]_vars

\* the handle was closed after a read that wrote a response, and the
\* device opened again: one handle is open
C28_Witness ==
    /\ pc = "read"
    /\ lastRead = "none"
    /\ nparse >= 1
    /\ output # <<>>
    /\ openHandles = {3}
    /\ serialPort = IntVal(3)

(***************************************************************************)
(* The speech service rejecting calls: every call of the client raises     *)
(* while the service is down (speechd is outside the program; its calls    *)
(* either return or raise).                                                *)
(***************************************************************************)
MaxSetters == 2

BackendDown ==
    /\ pc = "test"
    /\ backendOK
    /\ backendOK' = FALSE
    /\ UNCHANGED <<conv, family, dec, lite, calls, raised, data, input, output, peak, nparse,
                   pc, serialPort, openHandles, devicePresent, polls, lastRead>>

BackendUp ==
    /\ pc = "test"
    /\ ~backendOK
    /\ backendOK' = TRUE
    /\ UNCHANGED <<conv, family, dec, lite, calls, raised, data, input, output, peak, nparse,
                   pc, serialPort, openHandles, devicePresent, polls, lastRead>>

\* ":dv " + selector + " " + value
DvCmd(selector, value) == <<58, 100, 118, 32>> \o selector \o <<32>> \o value

\* sub-commands for each parameter setter: rate, volume, pitch (ap),
\* pitch range (pr), design voice (g5), punctuation; values inside and
\* above the native ranges
DecParamSubCommands ==
    {RaCmd(Decimal(v)) : v \in {300, 700}}
    \cup {VoCmd(Decimal(120))}
    \cup {DvCmd(<<97, 112>>, Decimal(v)) : v \in {100, 250}}
    \cup {DvCmd(<<112, 114>>, Decimal(150))}
    \cup {DvCmd(<<103, 53>>, Decimal(v)) : v \in {70, 90}}
    \cup {PuCmd(115)}

\* those that are also sent with something after them
DecFollowedSubCommands ==
    {VoCmd(Decimal(120)), DvCmd(<<97, 112>>, Decimal(100)),
     DvCmd(<<112, 114>>, Decimal(150)), DvCmd(<<103, 53>>, Decimal(70)), PuCmd(115)}

\* voice selection: by name ("p") and by number ("n1")
DecVoiceSubCommands == {NaCmd(112), <<58, 110, 49>>}

\* what follows a sub-command: nothing, or `:ra 200` and, after the
\* command string, the index byte
DecAlone(sub) == Bracket(sub)
DecFollowed(sub) == Bracket(sub \o RaCmd(Decimal(200))) \o <<IndexChar>>

DecSetterCommands ==
    {DecAlone(s) : s \in DecParamSubCommands \cup DecVoiceSubCommands}
    \cup {DecFollowed(s) : s \in DecFollowedSubCommands \cup DecVoiceSubCommands}

LiteTerminators == {RateCommand, PitchCommand, VolumeCommand, PunctCommand}

\* a LiteTalk parameter command alone, or followed by the index command
LiteAlone(v, t) == LiteCmd(Decimal(v), t)
LiteFollowed(v, t) == LiteCmd(Decimal(v), t) \o LiteCmd(<<>>, IndexCommand)

LiteSetterCommands ==
    {LiteAlone(v, t) : v \in LiteAbsValues, t \in LiteTerminators}
    \cup {LiteFollowed(7, t) : t \in LiteTerminators}

DECtalkSetter ==
    /\ nparse < MaxSetters
    /\ \E c \in DecSetterCommands : DECtalkParse(c)

LiteTalkSetter ==
    /\ nparse < MaxSetters
    /\ \E c \in LiteSetterCommands : LiteTalkParse(c)

NextBackend == BackendDown \/ BackendUp \/ DECtalkSetter \/ LiteTalkSetter

SpecBackend == Init /\ [][NextBackend]_vars

\* the calls made by this step, all rejected
Rejected(n) ==
    /\ Len(calls') = Len(calls) + n
    /\ SubSeq(calls', 1, Len(calls)) = calls
    /\ \A i \in (Len(calls) + 1)..Len(calls') : ~calls'[i].ok

\* C11: when the back-end rejects a parameter setter call (rate, pitch,
\* pitch range, volume, design voice, punctuation) of either decoder,
\* parse does not raise, the stored parameters stay as they were and no
\* other session field changes because of it; the sub-command and the
\* bytes after it are processed (the next setter is called, the index byte
\* / index command is answered).
C11_SetterFailureCaught ==
    [][~backendOK =>
        /\ \A s \in DecParamSubCommands :
            /\ Parsed(DecAlone(s)) =>
                  /\ raised' = "none" /\ Rejected(1)
                  /\ dec' = [dec EXCEPT !.commandMode = "False"]
                  /\ output' = output
            /\ (s \in DecFollowedSubCommands /\ Parsed(DecFollowed(s))) =>
                  /\ raised' = "none" /\ Rejected(2)
                  /\ calls'[Len(calls')].op = "set_rate"
                  /\ dec' = [dec EXCEPT !.commandMode = "False"]
                  /\ output' = Append(output, IndexChar)
        /\ \A v \in LiteAbsValues : \A t \in LiteTerminators :
            /\ Parsed(LiteAlone(v, t)) =>
                  /\ raised' = "none" /\ Rejected(1)
                  /\ lite' = [lite EXCEPT !.commandMode = "False"]
            /\ (v = 7 /\ Parsed(LiteFollowed(v, t))) =>
                  /\ raised' = "none" /\ Rejected(1)
                  /\ lite' = [lite EXCEPT !.commandMode = "False",
                                          !.response = Append(@, ReturnChar)]]_vars

\* two setter calls were rejected in one parse call, which went on to
\* answer the index byte
C11_Witness ==
    /\ family = "DECtalk"
    /\ ~backendOK
    /\ raised = "none"
    /\ Len(calls) = 2
    /\ ~calls[1].ok /\ ~calls[2].ok
    /\ output = <<IndexChar>>
    /\ dec.rate \in {400, 500}

\* C12: DECtalk: when the back-end rejects the set_voice call of a voice
\* selection (`n1`, or `na p`), parse does not raise, the session is
\* unchanged and what follows is processed (the next setter is called, the
\* index byte is answered).
C12_VoiceFailureCaught ==
    [][~backendOK =>
        \A s \in DecVoiceSubCommands :
            /\ Parsed(DecAlone(s)) =>
                  /\ raised' = "none" /\ Rejected(1)
                  /\ dec' = [dec EXCEPT !.commandMode = "False"]
            /\ Parsed(DecFollowed(s)) =>
                  /\ raised' = "none" /\ Rejected(2)
                  /\ dec' = [dec EXCEPT !.commandMode = "False"]
                  /\ output' = Append(output, IndexChar)]_vars

(***************************************************************************)
(* Inputs: literal text, alone or followed by the index byte or by the     *)
(* byte that starts a command; streams of up to 4096 bytes.                *)
(***************************************************************************)
MaxTexts == 2

\* "hi", " a b ", two blanks, and 4095 times "a"
Texts == {<<104, 105>>, <<32, 97, 32, 98, 32>>, <<32, 32>>, Run(97, MaxBufferSize - 1)}

DecTextChunks ==
    Texts \cup {t \o <<IndexChar>> : t \in Texts} \cup {t \o <<CommandStart>> : t \in Texts}
    \cup {<<IndexChar>>, <<CommandStart>>}

\* the command code alone, and followed by the digit "5"
LiteTextChunks ==
    Texts \cup {t \o <<CommandCode>> : t \in Texts}
    \cup {<<CommandCode>>, <<CommandCode, 53>>}

DECtalkText ==
    /\ nparse < MaxTexts
    /\ \E c \in DecTextChunks :
        /\ Len(input) + Len(c) <= MaxBufferSize
        /\ DECtalkParse(c)

LiteTalkText ==
    /\ nparse < MaxTexts
    /\ \E c \in LiteTextChunks :
        /\ Len(input) + Len(c) <= MaxBufferSize
        /\ LiteTalkParse(c)

\* "hi" and ":ra 300", not preceded by "["
StrayTexts == {<<104, 105>>, RaCmd(Decimal(300))}

\* text followed by the byte that ends a command
DECtalkStrayEnd ==
    /\ nparse < MaxTexts
    /\ \E t \in StrayTexts :
        /\ Len(input) + Len(t) + 1 <= MaxBufferSize
        /\ DECtalkParse(t \o <<CommandEnd>>)

NextText == DECtalkText \/ LiteTalkText \/ DECtalkStrayEnd

SpecText == Init /\ [][NextText]_vars

\* C13: DECtalk: from an empty buffer, non-blank literal text followed at
\* once by the index byte 0x0B gives one speak call with exactly that text,
\* leaves the buffer empty and puts the index byte in the response.
C13_TextThenIndex ==
    [][\A t \in Texts :
          (Parsed(t \o <<IndexChar>>) /\ dec.characterBuffer = <<>> /\ ~IsBlank(t)) =>
              /\ raised' = "none"
              /\ calls' = Append(calls, SpeakCall(t))
              /\ dec'.characterBuffer = <<>>
              /\ output' = Append(output, IndexChar)]_vars

\* " a b " and the index byte were parsed: one speak call with the text as
\* it was received
C13_Witness ==
    /\ family = "DECtalk"
    /\ input = <<32, 97, 32, 98, 32, IndexChar>>
    /\ calls = <<SpeakCall(<<32, 97, 32, 98, 32>>)>>
    /\ output = <<IndexChar>>

\* what the byte entering command mode does to text: speaks it unless it
\* is empty or all spaces
FlushedAsSpeech(text) ==
    calls' = IF \A i \in 1..Len(text) : text[i] = 32
             THEN calls ELSE Append(calls, SpeakCall(text))

\* C16: in both decoders the byte entering command mode (DECtalk "[",
\* LiteTalk 0x01) first flushes the text in the buffer as speech: one
\* speak call with exactly that text when it is not blank; the buffer is
\* left empty and the mode flag is set to command mode.
C16_CommandStartFlushes ==
    [][/\ \A t \in Texts \cup {<<>>} :
            (family = "DECtalk" /\ Parsed(t \o <<CommandStart>>)) =>
                /\ FlushedAsSpeech(dec.characterBuffer \o t)
                /\ dec'.characterBuffer = <<>>
                /\ dec'.commandMode = "True"
                /\ raised' = "none"
       /\ \A t \in Texts \cup {<<>>} :
            (/\ family = "LiteTalk" /\ Parsed(t \o <<CommandCode>>)
             /\ (t # <<>> => lite.commandMode = "False")) =>
                /\ FlushedAsSpeech(lite.received \o t)
                /\ lite'.received = <<>>
                /\ lite'.commandMode = "True"
                /\ raised' = "none"]_vars

\* "hi" then, in a later chunk, "[": "hi" was spoken when "[" arrived
C16_Witness ==
    /\ family = "DECtalk"
    /\ nparse = 2
    /\ data = <<CommandStart>>
    /\ input = <<104, 105, CommandStart>>
    /\ calls = <<SpeakCall(<<104, 105>>)>>
    /\ dec.characterBuffer = <<>>
    /\ dec.commandMode = "True"

\* C24: DECtalk: printable text received while the decoder is not in
\* command mode is never interpreted as a command: a "]" after it triggers
\* no setter and no voice change and does not discard it unspoken; the
\* text is still in the buffer or has been passed to speak.
C24_DispatchOnlyAfterStart ==
    [][\A t \in StrayTexts :
          (/\ family = "DECtalk" /\ dec.commandMode # "True"
           /\ Parsed(t \o <<CommandEnd>>)) =>
              /\ raised' = "none"
              /\ \A i \in (Len(calls) + 1)..Len(calls') : calls'[i].op = "speak"
              /\ dec'.rate = dec.rate /\ dec'.pitch = dec.pitch
              /\ dec'.volume = dec.volume /\ dec'.punctuation = dec.punctuation
              /\ \/ dec'.characterBuffer = dec.characterBuffer \o t
                 \/ calls' = Append(calls, SpeakCall(dec.characterBuffer \o t))]_vars

(***************************************************************************)
(* Inputs: LiteTalk command prefixes, each followed by any one byte.       *)
(***************************************************************************)
MaxPrefixes == 1

\* the command code; with "5"; with "+2"; after the text "a"; the
\* interrogation command; the text "a" (which leaves the decoder Idle)
LitePrefixes ==
    {<<CommandCode>>, <<CommandCode, 53>>, <<CommandCode, 43, 50>>,
     <<97, CommandCode, 53>>, <<CommandCode, InterrogationCommand>>, <<97>>}

AllBytes == 0..255

LiteTalkPrefix ==
    /\ nparse < MaxPrefixes
    /\ \E c \in LitePrefixes : LiteTalkParse(c)

LiteTalkAnyByte ==
    /\ nparse <= MaxPrefixes
    /\ data \in LitePrefixes
    /\ \E b \in AllBytes : LiteTalkParse(<<b>>)

NextLiteCommand == LiteTalkPrefix \/ LiteTalkAnyByte

SpecLiteCommand == Init /\ [][NextLiteCommand]_vars

\* this step is a parse call of the one byte b
ParsedByte(b) == nparse' = nparse + 1 /\ data' = <<b>>

\* "RPItalk 0.9" + CR
IdentificationString == <<82, 80, 73, 116, 97, 108, 107, 32, 48, 46, 57, 13>>

\* C14: LiteTalk, in command mode: Interrogation (0x3F) appends 0x00 0x20,
\* the identification string, CR and 0x7F to the response; Identify (0x49)
\* appends the identification string and CR; Index (0x45) appends one CR.
\* Each returns the mode to Idle, leaves the buffer and the parameters as
\* they were and calls no setter.  0x01 0x3F from the initial state gives
\* exactly the interrogation response, with the mode Idle.
C14_QueryResponses ==
    [][/\ lite.commandMode = "True" =>
            /\ ParsedByte(InterrogationCommand) =>
                  /\ lite' = [lite EXCEPT
                                !.response = @ \o <<0, 32>> \o IdentificationString \o <<13, 127>>,
                                !.commandMode = "False"]
                  /\ calls' = calls /\ raised' = "none"
            /\ ParsedByte(IdCommand) =>
                  /\ lite' = [lite EXCEPT !.response = @ \o IdentificationString \o <<13>>,
                                          !.commandMode = "False"]
                  /\ calls' = calls /\ raised' = "none"
            /\ ParsedByte(IndexCommand) =>
                  /\ lite' = [lite EXCEPT !.response = @ \o <<13>>, !.commandMode = "False"]
                  /\ calls' = calls /\ raised' = "none"
       /\ (nparse = 0 /\ Parsed(<<CommandCode, InterrogationCommand>>)) =>
            /\ lite' = [lite EXCEPT
                          !.response = <<0, 32>> \o IdentificationString \o <<13, 127>>,
                          !.commandMode = "False"]
            /\ calls' = calls /\ raised' = "none"]_vars

\* the interrogation command arrived after the digit "5": the response is
\* there and the digit is still in the buffer
C14_Witness ==
    /\ family = "LiteTalk"
    /\ input = <<CommandCode, 53, InterrogationCommand>>
    /\ lite.response = <<0, 32>> \o IdentificationString \o <<13, 127>>
    /\ lite.received = <<53>>
    /\ lite.commandMode = "False"

\* the bytes with a meaning in command mode: digits, signs, the seven
\* terminators, Cancel and the command code
CommandBytes ==
    (48..57) \cup {43, 45} \cup {63, 73, 69, 115, 112, 118, 98} \cup {24, 1}

\* C15: LiteTalk, in command mode: a byte that is no digit, sign,
\* terminator, Cancel or command code aborts the command: the buffer is
\* discarded without a speak call, no setter is called, no parameter
\* changes, and the mode returns to Idle.
C15_UnknownByteAborts ==
    [][\A b \in AllBytes \ CommandBytes :
          (lite.commandMode = "True" /\ ParsedByte(b)) =>
              /\ lite' = [lite EXCEPT !.received = <<>>, !.commandMode = "False"]
              /\ calls' = calls
              /\ raised' = "none"]_vars

\* "x" arrived after 0x01 "+2": the buffer is empty, nothing was called
C15_Witness ==
    /\ family = "LiteTalk"
    /\ input = <<CommandCode, 43, 50, 120>>
    /\ lite.received = <<>>
    /\ lite.commandMode = "False"
    /\ calls = <<>>

(***************************************************************************)
(* convertWithinRange on its own: device ranges [r1m, r1x] of every width  *)
(* up to MaxWidth, and values from one below the range to one above it.    *)
(***************************************************************************)
MaxOrigin == 2
MaxWidth == 7

Conversions ==
    {[oldValue |-> x, r1m |-> a, r1x |-> a + w, newValue |-> 0, done |-> FALSE] :
        x \in (0 - MaxOrigin - 1)..(MaxOrigin + MaxWidth + 1),
        a \in (0 - MaxOrigin)..MaxOrigin,
        w \in 1..MaxWidth}

InitMapRange ==
    /\ InitDecoder
    /\ pc = "test"
    /\ devicePresent = FALSE
    /\ conv \in {c \in Conversions : c.oldValue >= c.r1m - 1 /\ c.oldValue <= c.r1x + 1}

\* self.convertWithinRange(value, min, max)
MapRange ==
    /\ ~conv.done
    /\ conv' = [conv EXCEPT
                  !.newValue = convertWithinRange(conv.oldValue, conv.r1m, conv.r1x, -100, 100),
                  !.done = TRUE]
    /\ UNCHANGED <<family, dec, lite, calls, raised, backendOK, data, input, output,
                   peak, nparse, pc, serialPort, openHandles, devicePresent, polls,
                   lastRead>>

NextMapRange == MapRange

SpecMapRange == InitMapRange /\ [][NextMapRange]_vars

\* the midpoint-anchored linear rescaling of x from [a, b] to [-100, 100],
\* truncated toward zero and clamped
Rescaled(x, a, b) ==
    LET n == 100 * (2 * (x - a) - (b - a))
        q == IF n >= 0 THEN n \div (b - a) ELSE 0 - ((0 - n) \div (b - a))
    IN IF q > 100 THEN 100 ELSE IF q < -100 THEN -100 ELSE q

\* C17: with the default target, for all integers a < b the lower end a
\* maps to -100 and the upper end b to 100, and every integer x maps to an
\* integer in [-100, 100]: the midpoint-anchored linear rescaling of x,
\* truncated toward zero and then clamped.
C17_RescalesLinearly ==
    conv.done /\ conv # NoConversion =>
        /\ conv.oldValue = conv.r1m => conv.newValue = -100
        /\ conv.oldValue = conv.r1x => conv.newValue = 100
        /\ conv.newValue \in -100..100
        /\ conv.newValue = Rescaled(conv.oldValue, conv.r1m, conv.r1x)

\* this step sends to the back-end one accepted setter call whose value is
\* the rescaling of v from [lo, hi]
SendsRescaled(v, lo, hi) ==
    /\ Len(calls') = Len(calls) + 1
    /\ SubSeq(calls', 1, Len(calls)) = calls
    /\ calls'[Len(calls')].ok
    /\ calls'[Len(calls')].val = Rescaled(v, lo, hi)

\* C18: DECtalk: every numeric setter sends to the back-end the rescaling
\* of the new raw value from the parameter's native range (rate 75-650,
\* pitch 50-200, pitch range 0-100, volume 0-100, design voice g5 60-86)
\* and, the call having succeeded, stores the new raw value.
C18_SendsMappedStoresRaw ==
    [][backendOK =>
        /\ \A v \in {300, 700} :
              Parsed(DecAlone(RaCmd(Decimal(v)))) =>
                  SendsRescaled(v, 75, 650) /\ dec'.rate = v
        /\ Parsed(DecAlone(VoCmd(Decimal(120)))) =>
              SendsRescaled(120, 0, 100) /\ dec'.volume = 120
        /\ \A v \in {100, 250} :
              Parsed(DecAlone(DvCmd(<<97, 112>>, Decimal(v)))) =>
                  SendsRescaled(v, 50, 200) /\ dec'.pitch = v
        /\ Parsed(DecAlone(DvCmd(<<112, 114>>, Decimal(150)))) =>
              SendsRescaled(150, 0, 100) /\ dec'.range = IntVal(150)
        /\ \A v \in {70, 90} :
              Parsed(DecAlone(DvCmd(<<103, 53>>, Decimal(v)))) =>
                  SendsRescaled(v, 60, 86) /\ dec'.g5 = IntVal(v)]_vars

\* C19: DECtalk: a successful command that sets one parameter changes that
\* parameter's stored value only; `dv g5 <n>` sets g5 to n and leaves the
\* rate, the pitch and the volume as they were.
C19_OnlyThatParameter ==
    [][backendOK =>
        /\ \A v \in {300, 700} :
              Parsed(DecAlone(RaCmd(Decimal(v)))) =>
                  dec' = [dec EXCEPT !.rate = v, !.commandMode = "False"]
        /\ Parsed(DecAlone(VoCmd(Decimal(120)))) =>
              dec' = [dec EXCEPT !.volume = 120, !.commandMode = "False"]
        /\ \A v \in {100, 250} :
              Parsed(DecAlone(DvCmd(<<97, 112>>, Decimal(v)))) =>
                  dec' = [dec EXCEPT !.pitch = v, !.commandMode = "False"]
        /\ Parsed(DecAlone(DvCmd(<<112, 114>>, Decimal(150)))) =>
              dec' = [dec EXCEPT !.range = IntVal(150), !.commandMode = "False"]
        /\ \A v \in {70, 90} :
              Parsed(DecAlone(DvCmd(<<103, 53>>, Decimal(v)))) =>
                  dec' = [dec EXCEPT !.g5 = IntVal(v), !.commandMode = "False"]]_vars

\* C21: LiteTalk: in any decoder state the Cancel byte 0x18 causes exactly
\* one back-end cancel call, empties the scratch buffer without speaking
\* its contents, appends exactly one carriage return to the response and
\* leaves rate, pitch, volume and punctuation as they were.
C21_CancelClearsAndAcknowledges ==
    [][(family = "LiteTalk" /\ ParsedByte(CancelCommand)) =>
          /\ raised' = "none"
          /\ calls' = Append(calls, CancelCall)
          /\ lite'.received = <<>>
          /\ lite'.response = lite.response \o <<13>>
          /\ lite'.rate = lite.rate /\ lite'.pitch = lite.pitch
          /\ lite'.volume = lite.volume /\ lite'.punctuation = lite.punctuation]_vars

\* Cancel arrived in command mode with "+2" in the buffer
C21_Witness ==
    /\ family = "LiteTalk"
    /\ input = <<CommandCode, 43, 50, CancelCommand>>
    /\ calls = <<CancelCall>>
    /\ lite.received = <<>>
    /\ lite.response = <<13>>

(***************************************************************************)
(* Inputs: LiteTalk commands with every punctuation code from 0 to one     *)
(* above the largest, a negative one, and value texts that are missing or  *)
(* are no integers.                                                        *)
(***************************************************************************)
MaxValues == 2
MaxCode == 16

\* "", "+", "-", "5+", "+-"
BadTexts == {<<>>, <<43>>, <<45>>, <<53, 43>>, <<43, 45>>}

LitePunctCodes ==
    {LiteCmd(Decimal(k), PunctCommand) : k \in 0..MaxCode}
    \cup {LiteCmd(<<45, 49>>, PunctCommand)}

LiteBadValues ==
    {LiteCmd(t, term) : t \in BadTexts, term \in LiteNumericTerminators}
    \cup {LiteCmd(Decimal(7), term) : term \in LiteNumericTerminators}

LiteTalkPunct ==
    /\ nparse < MaxValues
    /\ \E c \in LitePunctCodes : LiteTalkParse(c)

LiteTalkBadValue ==
    /\ nparse < MaxValues
    /\ \E c \in LiteBadValues : LiteTalkParse(c)

NextLiteValues == LiteTalkPunct \/ LiteTalkBadValue

SpecLiteValues == Init /\ [][NextLiteValues]_vars

\* the level of the punctuation code k
LevelOf(k) ==
    IF k % 4 = 0 THEN "all" ELSE IF k % 4 = 1 THEN "most"
    ELSE IF k % 4 = 2 THEN "some" ELSE "none"

\* C22: LiteTalk punctuation terminator (0x62): a code k in 0..15 sets the
\* back-end punctuation level to the entry k mod 4 of [all, most, some,
\* none] and stores k; a code above 15 or below 0 calls no back-end setter
\* and leaves the stored punctuation as it was.
C22_PunctuationCodes ==
    [][/\ \A k \in 0..15 :
            Parsed(LiteCmd(Decimal(k), PunctCommand)) =>
                /\ calls' = Append(calls, NameCall("set_punctuation", LevelOf(k), TRUE))
                /\ lite'.punctuation = IntVal(k)
       /\ \A t \in {Decimal(k) : k \in 16..MaxCode} \cup {<<45, 49>>} :
            Parsed(LiteCmd(t, PunctCommand)) =>
                /\ calls' = calls
                /\ lite'.punctuation = lite.punctuation]_vars

\* the code 14 was stored, with the level "some" sent, and then the code 16
\* was refused
C22_Witness ==
    /\ family = "LiteTalk"
    /\ input = LiteCmd(Decimal(14), PunctCommand) \o LiteCmd(Decimal(16), PunctCommand)
    /\ calls = <<NameCall("set_punctuation", "some", TRUE)>>
    /\ lite.punctuation = IntVal(14)

\* C23: LiteTalk: a rate, pitch or volume terminator arriving in command
\* mode with a text that is missing or is no integer (a lone sign, digits
\* followed by a sign) stores the default: rate 8, pitch 50, volume 5,
\* whatever the value was before.
C23_DefaultsWhenUnparseable ==
    [][\A t \in BadTexts :
          /\ Parsed(LiteCmd(t, RateCommand)) => lite'.rate = 8
          /\ Parsed(LiteCmd(t, PitchCommand)) => lite'.pitch = 50
          /\ Parsed(LiteCmd(t, VolumeCommand)) => lite'.volume = 5]_vars

\* C25: LiteTalk: digits and signs accumulated in command mode are never
\* passed to speak: a byte arriving in command mode, where the buffer
\* holds nothing but such digits and signs, causes no speak call.
C25_CommandTextNeverSpoken ==
    [][(/\ family = "LiteTalk" /\ lite.commandMode = "True" /\ lite.received # <<>>
        /\ \E b \in AllBytes : ParsedByte(b)) =>
            \A i \in (Len(calls) + 1)..Len(calls') : calls'[i].op # "speak"]_vars

\* C26: LiteTalk: after a Cancel byte (0x18) the decoder is not in command
\* mode, whatever mode it was in before.
C26_CancelLeavesCommandMode ==
    [][(family = "LiteTalk" /\ ParsedByte(CancelCommand)) =>
            lite'.commandMode # "True"]_vars

\* C27: DECtalk: a break byte silences pending output: the cancel call of a
\* break byte is not followed by a speak call with text received before it,
\* so after a chunk that ends with a break byte the last call is the cancel.
C27_BreakSilencesPending ==
    [][(/\ family = "DECtalk" /\ nparse' = nparse + 1 /\ raised' = "none"
        /\ data'[Len(data')] = BreakChar) =>
            calls'[Len(calls')] = CancelCall]_vars

====
